---- MODULE Spec2Model ----
(***************************************************************************)
(* U32Variable (plonky2x/src/frontend/uint/uint32.rs): a u32 held in one   *)
(* field element of a circuit, its witness get/set, its symbolic           *)
(* encode/decode to four big-endian ByteVariables, and the plain-value     *)
(* encode_value/decode_value.                                              *)
(*                                                                         *)
(* TLC's integers stop at 2^31-1, so a u32 is modelled as its 32 bits      *)
(* (a function 0..31 -> {0,1}, index 0 the least significant bit) and a    *)
(* field element as the 64 bits of its canonical u64 representative.       *)
(* Rust's >>, <<, &, | and `as` casts are modelled on those bits.          *)
(***************************************************************************)
EXTENDS Integers, Sequences, FiniteSets, TLC

VARIABLES
    pc,        \* "start" | "build" | "witness" | "value" | "done" | "panicked"
    call,      \* the last operation called and the length of its sequence argument
    builder,   \* CircuitBuilder: [nTargets, gates]
    var,       \* the U32Variable under construction: its target, or NoTarget
    encoded,   \* Vec<ByteVariable> returned by encode (<<>> before)
    decoded,   \* the U32Variable returned by decode: its target, or NoTarget
    pw,        \* the witness: target -> field element, on the targets set so far
    wrote,     \* the u32 given to the last set that returned, or NoValue
    full,      \* the full witness handed to the constraint check (<<>> before)
    accepted,  \* "none" | "ok" | "rejected": the outcome of the constraint check
    got,       \* what get returned: a u32, or NoValue
    value,     \* plain-value path: the u32 given to encode_value
    bytes,     \* plain-value path: the Vec<u8> encode_value returned
    back       \* plain-value path: the u32 decode_value returned, or NoValue

vars == <<pc, call, builder, var, encoded, decoded, pw, wrote, full, accepted,
          got, value, bytes, back>>

(***************************************************************************)
(* Widths.                                                                 *)
(***************************************************************************)
U32Width == 32
FieldWidth == 64
\* Mutant of SplitBits: one bit more is requested from split_le.
SplitBitsWide == 32 + 1
SplitBits == 32
NumBytes == 4
ByteWidth == 8

(***************************************************************************)
(* Bounds of the model.                                                    *)
(***************************************************************************)
\* The inputs of encode_value differ from 0 or from 0xFFFFFFFF in at most
\* this many bits (or are the test vector 0x12345678).
MaxWeight == 1
\* Sequences handed to decode, decode_value and from_variables have at most
\* this many elements.
MaxLen == 5

NoTarget == 0 - 1
NoValue == <<>>

(***************************************************************************)
(* u32 and u8 arithmetic on bits.                                          *)
(***************************************************************************)
\* The u32 whose value is the small number n (n < 2^16).
U32Lit(n) == [k \in 0 .. U32Width - 1 |-> IF k < 16 THEN (n \div 2 ^ k) % 2 ELSE 0]

\* The u32 hi * 2^16 + lo.
U32Of(hi, lo) ==
    [k \in 0 .. U32Width - 1 |->
        IF k < 16 THEN (lo \div 2 ^ k) % 2 ELSE (hi \div 2 ^ (k - 16)) % 2]

\* value >> n and value << n on a u32 (n < 32): vacated places are 0.
Shr(v, n) == [k \in 0 .. U32Width - 1 |-> IF k + n < U32Width THEN v[k + n] ELSE 0]
Shl(v, n) == [k \in 0 .. U32Width - 1 |-> IF k >= n THEN v[k - n] ELSE 0]
BitAnd(a, b) == [k \in 0 .. U32Width - 1 |-> IF a[k] = 1 /\ b[k] = 1 THEN 1 ELSE 0]
BitOr(a, b) == [k \in 0 .. U32Width - 1 |-> IF a[k] = 1 \/ b[k] = 1 THEN 1 ELSE 0]

RECURSIVE LowBits(_, _)
\* The number held in the low n bits of v.
LowBits(v, n) == IF n = 0 THEN 0 ELSE v[0] + 2 * LowBits([k \in 0 .. n - 2 |-> v[k + 1]], n - 1)

\* `x as u8` of a u32: the low 8 bits.  `b as u32` of a u8: zero extension.
AsU8(v) == LowBits(v, ByteWidth)
AsU32(b) == [k \in 0 .. U32Width - 1 |-> IF k < ByteWidth THEN (b \div 2 ^ k) % 2 ELSE 0]

\* vec[i] with Rust's 0-based index, on a TLA+ sequence.
At(s, i) == s[i + 1]

(***************************************************************************)
(* encode_value / decode_value.                                            *)
(***************************************************************************)
RECURSIVE EncodeValueLoopLE(_, _, _)
\* Mutant of EncodeValueLoop: the shift is i * 8 (least significant byte first).
EncodeValueLoopLE(bs, i, v) ==
    IF i = NumBytes THEN bs
    ELSE EncodeValueLoopLE(
            [bs EXCEPT ![i + 1] = AsU8(BitAnd(Shr(v, i * ByteWidth), U32Lit(255)))],
            i + 1, v)

RECURSIVE EncodeValueLoop(_, _, _)
EncodeValueLoop(bs, i, v) ==
    IF i = NumBytes THEN bs
    ELSE EncodeValueLoop(
            [bs EXCEPT ![i + 1] = AsU8(BitAnd(Shr(v, (NumBytes - i - 1) * ByteWidth), U32Lit(255)))],
            i + 1, v)

encode_value(v) == EncodeValueLoop([i \in 1 .. NumBytes |-> 0], 0, v)

RECURSIVE DecodeValueLoopLE(_, _, _)
\* Mutant of DecodeValueLoop: the shift is i * 8 (least significant byte first).
DecodeValueLoopLE(v, i, bs) ==
    IF i = NumBytes THEN v
    ELSE DecodeValueLoopLE(BitOr(v, Shl(AsU32(At(bs, i)), i * ByteWidth)), i + 1, bs)

RECURSIVE DecodeValueLoop(_, _, _)
DecodeValueLoop(v, i, bs) ==
    IF i = NumBytes THEN v
    ELSE DecodeValueLoop(
            BitOr(v, Shl(AsU32(At(bs, i)), (NumBytes - i - 1) * ByteWidth)),
            i + 1, bs)

\* assert_eq!(bytes.len(), 4) comes first: a failed call returns nothing.
decode_value(bs) ==
    IF Len(bs) # NumBytes
    THEN [ok |-> FALSE, value |-> NoValue]
    ELSE [ok |-> TRUE, value |-> DecodeValueLoop(U32Lit(0), 0, bs)]

(***************************************************************************)
(* Field elements: the 64 bits of the canonical representative.  The test  *)
(* field is Goldilocks, p = 2^64 - 2^32 + 1.                               *)
(***************************************************************************)
FieldLit(n) == [k \in 0 .. FieldWidth - 1 |-> IF k < 16 THEN (n \div 2 ^ k) % 2 ELSE 0]

\* The field element hi * 2^32 + lo of two u32 halves.
FieldOf(hi, lo) ==
    [k \in 0 .. FieldWidth - 1 |-> IF k < U32Width THEN lo[k] ELSE hi[k - U32Width]]

\* c < p: the high half is not all ones, or the low half is 0.
IsCanonical(c) ==
    \/ \E k \in U32Width .. FieldWidth - 1 : c[k] = 0
    \/ \A k \in 0 .. U32Width - 1 : c[k] = 0

\* F::from_canonical_u32(value): the element whose representative is value.
from_canonical_u32(v) ==
    [k \in 0 .. FieldWidth - 1 |-> IF k < U32Width THEN v[k] ELSE 0]

\* v.to_canonical_u64() as u32: the representative, cut to its low 32 bits.
to_canonical_u64_as_u32(c) == [k \in 0 .. U32Width - 1 |-> c[k]]

\* The representative is below 2^32.
InU32Range(c) == \A k \in U32Width .. FieldWidth - 1 : c[k] = 0

(***************************************************************************)
(* The circuit builder.  A gate is [kind, out, ins, value]:                *)
(*   "constant": target out is the constant value;                         *)
(*   "split":    split_le(out, Len(ins)): ins are fresh bit targets, each  *)
(*               0 or 1, whose weighted sum (ins[k] * 2^(k-1)) is out;      *)
(*   "le_sum":   le_sum(ins): out is a fresh target, the same weighted sum *)
(*               of the bit targets ins;                                   *)
(*   "connect":  assert_is_equal(ins[1], ins[2]).                          *)
(***************************************************************************)
Gate(kind, out, ins, val) == [kind |-> kind, out |-> out, ins |-> ins, value |-> val]

NewBuilder == [nTargets |-> 0, gates |-> <<>>]

\* builder.add_virtual_target(): one fresh target, no gate.
AddVirtualTarget(b) ==
    [builder |-> [b EXCEPT !.nTargets = @ + 1], target |-> b.nTargets]

\* builder.api.constant(c): the target of constant c, made once per constant.
ConstantTarget(b, c) ==
    LET have == {i \in 1 .. Len(b.gates) : b.gates[i].kind = "constant" /\ b.gates[i].value = c}
    IN  IF have # {}
        THEN [builder |-> b, target |-> b.gates[CHOOSE i \in have : TRUE].out]
        ELSE [builder |-> [nTargets |-> b.nTargets + 1,
                           gates |-> Append(b.gates, Gate("constant", b.nTargets, <<>>, c))],
              target |-> b.nTargets]

\* builder.api.split_le(integer, num_bits): num_bits fresh bit targets, least
\* significant first, constrained to be bits that sum to integer.
split_le(b, integer, num_bits) ==
    LET bits == [k \in 1 .. num_bits |-> b.nTargets + k - 1]
    IN  [builder |-> [nTargets |-> b.nTargets + num_bits,
                      gates |-> Append(b.gates, Gate("split", integer, bits, NoValue))],
         bits |-> bits]

\* builder.api.le_sum(bits): a fresh target constrained to the weighted sum.
le_sum(b, bits) ==
    [builder |-> [nTargets |-> b.nTargets + 1,
                  gates |-> Append(b.gates, Gate("le_sum", b.nTargets, bits, NoValue))],
     target |-> b.nTargets]

\* builder.assert_is_equal(x, y).
assert_is_equal(b, x, y) ==
    [b EXCEPT !.gates = Append(@, Gate("connect", NoTarget, <<x, y>>, NoValue))]

Reverse(s) == [k \in 1 .. Len(s) |-> s[Len(s) + 1 - k]]

\* s[a..b] with Rust's half-open 0-based range.
Slice(s, a, b) == SubSeq(s, a + 1, b)

(***************************************************************************)
(* U32Variable: init, constant, variables, from_variables.                 *)
(***************************************************************************)
init(b) == AddVirtualTarget(b)

constant(b, v) == ConstantTarget(b, from_canonical_u32(v))

variables(x) == <<x>>

\* assert_eq!(variables.len(), 1); Self(variables[0])
from_variables(vs) ==
    IF Len(vs) # 1
    THEN [ok |-> FALSE, var |-> NoTarget]
    ELSE [ok |-> TRUE, var |-> At(vs, 0)]

(***************************************************************************)
(* U32Variable::encode.                                                    *)
(***************************************************************************)
RECURSIVE FillByte(_, _, _)
\* byte.iter().rev().enumerate().try_fold(&mut arr, |arr, (j, &bit)| arr[j] = bit)
FillByte(arr, j, rev) ==
    IF j = Len(rev) THEN arr
    ELSE FillByte([arr EXCEPT ![j + 1] = At(rev, j)], j + 1, rev)

\* Mutant of EncodeByte: the bits of the group are not reversed.
EncodeByteNoRev(bits, i, false) ==
    FillByte([j \in 1 .. ByteWidth |-> false], 0,
             Slice(bits, i * ByteWidth, (i + 1) * ByteWidth))

\* One turn of the loop for group i: arr starts as eight copies of false.
EncodeByte(bits, i, false) ==
    FillByte([j \in 1 .. ByteWidth |-> false], 0,
             Reverse(Slice(bits, i * ByteWidth, (i + 1) * ByteWidth)))

RECURSIVE EncodeLoopAscending(_, _, _, _)
\* Mutant of EncodeLoop: for i in 0..4, the least significant group first.
EncodeLoopAscending(out, i, bits, false) ==
    IF Len(out) = NumBytes THEN out
    ELSE EncodeLoopAscending(Append(out, EncodeByte(bits, Len(out), false)), i, bits, false)

RECURSIVE EncodeLoop(_, _, _, _)
\* for i in (0..4).rev() { ...; bytes.push(ByteVariable(arr)) }
EncodeLoop(out, i, bits, false) ==
    IF i < 0 THEN out
    ELSE EncodeLoop(Append(out, EncodeByte(bits, i, false)), i - 1, bits, false)

encode(b, x) ==
    LET s == split_le(b, x, SplitBits)
        f == ConstantTarget(s.builder, FieldLit(0))
    IN  [builder |-> f.builder,
         bits |-> s.bits,
         bytes |-> EncodeLoop(<<>>, NumBytes - 1, s.bits, f.target)]

(***************************************************************************)
(* U32Variable::decode.                                                    *)
(***************************************************************************)
RECURSIVE Concat(_)
\* for byte in bytes.iter() { bits.extend_from_slice(&byte.0) }
Concat(bs) == IF bs = <<>> THEN <<>> ELSE Head(bs) \o Concat(Tail(bs))

\* Mutant of decode: the bits are summed in the order emitted, not reversed.
decode_norev(b, bs) ==
    IF Len(bs) # NumBytes
    THEN [ok |-> FALSE, builder |-> b, target |-> NoTarget]
    ELSE LET s == le_sum(b, Concat(bs))
         IN  [ok |-> TRUE, builder |-> s.builder, target |-> s.target]

\* Mutant of decode: the length is asserted after le_sum was called.
decode_late(b, bs) ==
    LET s == le_sum(b, Reverse(Concat(bs)))
    IN  IF Len(bs) # NumBytes
        THEN [ok |-> FALSE, builder |-> s.builder, target |-> NoTarget]
        ELSE [ok |-> TRUE, builder |-> s.builder, target |-> s.target]

\* assert_eq!(bytes.len(), 4) comes before the builder is touched.
decode(b, bs) ==
    IF Len(bs) # NumBytes
    THEN [ok |-> FALSE, builder |-> b, target |-> NoTarget]
    ELSE LET s == le_sum(b, Reverse(Concat(bs)))
         IN  [ok |-> TRUE, builder |-> s.builder, target |-> s.target]

(***************************************************************************)
(* Witness read and write: get and set.                                    *)
(***************************************************************************)
\* witness.set_target(target, c): the map gets the entry; setting a target
\* that already holds another value is a failed assertion, which ends the
\* run (the map is not read again, and is kept as it was).
set_target(w, t, c) ==
    IF t \in DOMAIN w /\ w[t] # c
    THEN [ok |-> FALSE, witness |-> w]
    ELSE [ok |-> TRUE, witness |-> (t :> c) @@ w]

\* witness.get_target(target): the entry, which must be there.
get_target(w, t) ==
    IF t \in DOMAIN w THEN [ok |-> TRUE, value |-> w[t]]
    ELSE [ok |-> FALSE, value |-> NoValue]

\* Mutant of set: the value is cut to 16 bits (from_canonical_u16(value as u16)).
set_u16(x, w, v) ==
    set_target(w, x, from_canonical_u32([k \in 0 .. U32Width - 1 |-> IF k < 16 THEN v[k] ELSE 0]))

set(x, w, v) == set_target(w, x, from_canonical_u32(v))

\* Mutant of get: an unassigned target reads as 0 (unwrap_or_default).
get_or_default(x, w) ==
    IF x \in DOMAIN w THEN [ok |-> TRUE, value |-> to_canonical_u64_as_u32(w[x])]
    ELSE [ok |-> TRUE, value |-> U32Lit(0)]

\* Mutant of get: a representative of 2^32 or more is refused
\* (u32::try_from(v.to_canonical_u64()).unwrap()).
get_checked(x, w) ==
    IF x \in DOMAIN w /\ InU32Range(w[x])
    THEN [ok |-> TRUE, value |-> to_canonical_u64_as_u32(w[x])]
    ELSE [ok |-> FALSE, value |-> NoValue]

get(x, w) ==
    LET v == get_target(w, x)
    IN  IF v.ok THEN [ok |-> TRUE, value |-> to_canonical_u64_as_u32(v.value)]
        ELSE [ok |-> FALSE, value |-> NoValue]

(***************************************************************************)
(* Witness generation and the constraint check of the proof system.        *)
(***************************************************************************)
IsBit(c) == c = FieldLit(0) \/ c = FieldLit(1)

\* The weighted sum of limbs that are bits: limb k weighs 2^(k-1).
BaseSum(w, ins) ==
    [k \in 0 .. FieldWidth - 1 |-> IF k < Len(ins) THEN w[ins[k + 1]][0] ELSE 0]

\* What the splitting generator writes to limb k (from 0): the sum, halved k
\* times, modulo 2.
Limb(c, k) == FieldLit(c[k])

GateHolds(g, w) ==
    CASE g.kind = "constant" -> w[g.out] = g.value
      [] g.kind = "connect" -> w[g.ins[1]] = w[g.ins[2]]
      [] OTHER -> /\ \A k \in 1 .. Len(g.ins) : IsBit(w[g.ins[k]])
                  /\ w[g.out] = BaseSum(w, g.ins)

\* Every target a gate names has a value and every gate's constraint holds.
Satisfies(b, w) ==
    \A i \in 1 .. Len(b.gates) :
        LET g == b.gates[i]
            used == ({g.out} \ {NoTarget}) \cup {g.ins[k] : k \in 1 .. Len(g.ins)}
        IN  used \subseteq DOMAIN w /\ GateHolds(g, w)

\* One generator.  It runs once its inputs are known and writes its outputs;
\* a write over a different value fails the run.
RunGate(g, r) ==
    LET w == r.witness IN
    CASE g.kind = "constant" ->
            [ok |-> r.ok /\ set_target(w, g.out, g.value).ok,
             witness |-> (g.out :> g.value) @@ w]
      [] g.kind = "connect" ->
            LET x == g.ins[1]
                y == g.ins[2]
            IN  IF x \in DOMAIN w /\ y \in DOMAIN w
                THEN [ok |-> r.ok /\ w[x] = w[y], witness |-> w]
                ELSE IF x \in DOMAIN w THEN [ok |-> r.ok, witness |-> (y :> w[x]) @@ w]
                ELSE IF y \in DOMAIN w THEN [ok |-> r.ok, witness |-> (x :> w[y]) @@ w]
                ELSE r
      [] g.kind = "split" ->
            IF g.out \in DOMAIN w
            THEN [ok |-> r.ok,
                  witness |-> [t \in DOMAIN w \cup {g.ins[k] : k \in 1 .. Len(g.ins)} |->
                                 IF \E k \in 1 .. Len(g.ins) : g.ins[k] = t
                                 THEN Limb(w[g.out], (CHOOSE k \in 1 .. Len(g.ins) : g.ins[k] = t) - 1)
                                 ELSE w[t]]]
            ELSE [ok |-> FALSE, witness |-> w]
      [] OTHER ->
            IF \A k \in 1 .. Len(g.ins) : g.ins[k] \in DOMAIN w
            THEN LET s == set_target(w, g.out, BaseSum(w, g.ins))
                 IN  [ok |-> r.ok /\ s.ok, witness |-> s.witness]
            ELSE [ok |-> FALSE, witness |-> w]

RECURSIVE RunGates(_, _, _, _)
\* The generators of the gates of the given kinds, in the builder's order.
RunGates(gates, i, kinds, r) ==
    IF i > Len(gates) THEN r
    ELSE RunGates(gates, i + 1, kinds,
                  IF gates[i].kind \in kinds THEN RunGate(gates[i], r) ELSE r)

\* Constants first, then what assert_is_equal ties together, then the sums.
Generate(b, w) ==
    RunGates(b.gates, 1, {"split", "le_sum"},
        RunGates(b.gates, 1, {"connect"},
            RunGates(b.gates, 1, {"constant"}, [ok |-> TRUE, witness |-> w])))

(***************************************************************************)
(* Inputs.                                                                 *)
(***************************************************************************)
RECURSIVE Flips(_, _)
\* The u32 values that differ from base in at most w bits.
Flips(base, w) ==
    IF w = 0 THEN {base}
    ELSE LET P == Flips(base, w - 1)
         IN  P \cup {[v EXCEPT ![k] = 1 - @] : v \in P, k \in 0 .. U32Width - 1}

Zero32 == U32Lit(0)
Ones32 == U32Of(65535, 65535)
\* 0x12345678, the vector of both tests.
TestVector == U32Of(4660, 22136)

\* The u32 values within w bits of 0 or of 0xFFFFFFFF, and the test vector.
Sampled(w) == Flips(Zero32, w) \cup Flips(Ones32, w) \cup {TestVector}

\* The u32 inputs of encode_value.
Values == Sampled(MaxWeight)

\* The u32 inputs of set: every single bit, set alone and cleared alone.
SetValues == Sampled(1)

\* The u32 inputs of constant.
ConstantValues == {TestVector, Zero32}

\* Field elements written by set_target on the bare Variable of x: some in
\* the u32 range, some at or above 2^32, up to p - 1.
FieldSamples ==
    {c \in {FieldOf(hi, lo) : hi \in {Zero32, U32Lit(1), U32Of(65535, 65534), Ones32},
                              lo \in {Zero32, TestVector, Ones32}} :
        IsCanonical(c)}

\* Field elements written by set_target on the Variable of decoded.
DecodedSamples == {from_canonical_u32(TestVector), FieldOf(U32Lit(1), Zero32)}

\* The first n elements of s repeated (<<>> when s is empty).
Cycle(s, n) == IF s = <<>> THEN <<>> ELSE [k \in 1 .. n |-> s[((k - 1) % Len(s)) + 1]]

Lengths(s) == IF s = <<>> THEN {0} ELSE 0 .. MaxLen

Called(op, n) == [op |-> op, len |-> n]

(***************************************************************************)
(* The run: a circuit is built, then a witness is filled and checked; or   *)
(* the plain-value functions are called.                                   *)
(***************************************************************************)
Init ==
    /\ pc = "start"
    /\ call = Called("new", 0)
    /\ builder = NewBuilder
    /\ var = NoTarget
    /\ encoded = <<>>
    /\ decoded = NoTarget
    /\ pw = <<>>
    /\ wrote = NoValue
    /\ full = <<>>
    /\ accepted = "none"
    /\ got = NoValue
    /\ value = NoValue
    /\ bytes = <<>>
    /\ back = NoValue

\* let x = U32Variable::init(&mut builder)
InitVar ==
    /\ pc = "start"
    /\ LET r == init(builder)
       IN  builder' = r.builder /\ var' = r.target
    /\ pc' = "build"
    /\ call' = Called("init", 0)
    /\ UNCHANGED <<encoded, decoded, pw, wrote, full, accepted, got, value, bytes, back>>

\* let x = U32Variable::constant(&mut builder, v)
ConstantVar(v) ==
    /\ pc = "start"
    /\ LET r == constant(builder, v)
       IN  builder' = r.builder /\ var' = r.target
    /\ pc' = "build"
    /\ call' = Called("constant", 0)
    /\ UNCHANGED <<encoded, decoded, pw, wrote, full, accepted, got, value, bytes, back>>

\* let x = U32Variable::from_variables(&vs), vs made of x.variables()
FromVariables(n) ==
    /\ pc = "build"
    /\ LET r == from_variables(Cycle(variables(var), n))
       IN  /\ pc' = IF r.ok THEN "build" ELSE "panicked"
           /\ var' = IF r.ok THEN r.var ELSE var
    /\ call' = Called("from_variables", n)
    /\ UNCHANGED <<builder, encoded, decoded, pw, wrote, full, accepted, got, value, bytes, back>>

\* let encoded = x.encode(&mut builder)
Encode ==
    /\ pc = "build"
    /\ encoded = <<>>
    /\ LET r == encode(builder, var)
       IN  builder' = r.builder /\ encoded' = r.bytes
    /\ call' = Called("encode", 0)
    /\ UNCHANGED <<pc, var, decoded, pw, wrote, full, accepted, got, value, bytes, back>>

\* let decoded = U32Variable::decode(&mut builder, &bs), bs made of encoded
Decode(n) ==
    /\ pc = "build"
    /\ decoded = NoTarget
    /\ LET r == decode(builder, Cycle(encoded, n))
       IN  /\ pc' = IF r.ok THEN "build" ELSE "panicked"
           /\ builder' = r.builder
           /\ decoded' = r.target
    /\ call' = Called("decode", n)
    /\ UNCHANGED <<var, encoded, pw, wrote, full, accepted, got, value, bytes, back>>

\* builder.assert_is_equal(decoded.0, x.0)
AssertIsEqual ==
    /\ pc = "build"
    /\ decoded # NoTarget
    /\ \A i \in 1 .. Len(builder.gates) : builder.gates[i].kind # "connect"
    /\ builder' = assert_is_equal(builder, decoded, var)
    /\ call' = Called("assert_is_equal", 0)
    /\ UNCHANGED <<pc, var, encoded, decoded, pw, wrote, full, accepted, got, value, bytes, back>>

\* let circuit = builder.build(); let mut pw = PartialWitness::new()
Build ==
    /\ pc = "build"
    /\ pc' = "witness"
    /\ call' = Called("build", 0)
    /\ UNCHANGED <<builder, var, encoded, decoded, pw, wrote, full, accepted, got, value, bytes, back>>

\* x.set(&mut pw, v)
Set(v) ==
    /\ pc = "witness"
    /\ LET r == set(var, pw, v)
       IN  /\ pw' = r.witness
           /\ pc' = IF r.ok THEN "witness" ELSE "panicked"
           /\ wrote' = IF r.ok THEN v ELSE wrote
    /\ call' = Called("set", 0)
    /\ UNCHANGED <<builder, var, encoded, decoded, full, accepted, got, value, bytes, back>>

\* pw.set_target(t, c) on the bare Variable of x or of decoded
SetTarget(t, c) ==
    /\ pc = "witness"
    /\ t # NoTarget
    /\ LET r == set_target(pw, t, c)
       IN  /\ pw' = r.witness
           /\ pc' = IF r.ok THEN "witness" ELSE "panicked"
    /\ call' = Called("set_target", 0)
    /\ UNCHANGED <<builder, var, encoded, decoded, wrote, full, accepted, got, value, bytes, back>>

\* let v = x.get(&pw)
Get ==
    /\ pc = "witness"
    /\ LET r == get(var, pw)
       IN  /\ pc' = IF r.ok THEN "witness" ELSE "panicked"
           /\ got' = IF r.ok THEN r.value ELSE got
    /\ call' = Called("get", 0)
    /\ UNCHANGED <<builder, var, encoded, decoded, pw, wrote, full, accepted, value, bytes, back>>

\* circuit.data.prove(pw) and verify: the generators fill the witness from
\* pw, and the proof is accepted when every constraint holds.
Prove ==
    /\ pc = "witness"
    /\ LET r == Generate(builder, pw)
       IN  /\ full' = r.witness
           /\ accepted' = IF r.ok /\ Satisfies(builder, r.witness) THEN "ok" ELSE "rejected"
    /\ pc' = "done"
    /\ call' = Called("prove", 0)
    /\ UNCHANGED <<builder, var, encoded, decoded, pw, wrote, got, value, bytes, back>>

\* A prover that picks the witness itself: x bound to any field element c,
\* the other targets as the generators would fill them, and then one target
\* t (when t is a target) overwritten by d.  The check is the same.
Forged(c) == Generate(builder, (var :> c)).witness

Overwrites(c) ==
    {[c EXCEPT ![0] = 1 - @], [c EXCEPT ![U32Width] = 1 - @], FieldLit(2)}

Forge ==
    /\ pc = "witness"
    /\ pw = <<>>
    /\ \E c \in FieldSamples :
          LET base == Forged(c) IN
          \E t \in DOMAIN base \cup {NoTarget} :
          \E d \in IF t = NoTarget THEN {c} ELSE Overwrites(base[t]) :
             LET w == IF t = NoTarget THEN base ELSE [base EXCEPT ![t] = d]
             IN  /\ full' = w
                 /\ accepted' = IF Satisfies(builder, w) THEN "ok" ELSE "rejected"
    /\ pc' = "done"
    /\ call' = Called("forge", 0)
    /\ UNCHANGED <<builder, var, encoded, decoded, pw, wrote, got, value, bytes, back>>

\* let bytes = U32Variable::encode_value(v)
EncodeValue(v) ==
    /\ pc = "start"
    /\ value' = v
    /\ bytes' = encode_value(v)
    /\ pc' = "value"
    /\ call' = Called("encode_value", 0)
    /\ UNCHANGED <<builder, var, encoded, decoded, pw, wrote, full, accepted, got, back>>

\* let back = U32Variable::decode_value(&bs), bs made of bytes
DecodeValue(n) ==
    /\ pc = "value"
    /\ LET r == decode_value(Cycle(bytes, n))
       IN  /\ pc' = IF r.ok THEN "value" ELSE "panicked"
           /\ back' = IF r.ok THEN r.value ELSE back
    /\ call' = Called("decode_value", n)
    /\ UNCHANGED <<builder, var, encoded, decoded, pw, wrote, full, accepted, got, value, bytes>>

Next ==
    \/ InitVar
    \/ \E v \in ConstantValues : ConstantVar(v)
    \/ \E n \in 0 .. MaxLen : FromVariables(n)
    \/ Encode
    \/ \E n \in Lengths(encoded) : Decode(n)
    \/ AssertIsEqual
    \/ Build
    \/ \E v \in SetValues : Set(v)
    \/ \E c \in FieldSamples : SetTarget(var, c)
    \/ \E c \in DecodedSamples : SetTarget(decoded, c)
    \/ Get
    \/ Prove
    \/ Forge
    \/ \E v \in Values : EncodeValue(v)
    \/ \E n \in 0 .. MaxLen : DecodeValue(n)

Spec == Init /\ [][Next]_vars

(***************************************************************************)
(* Plain-value properties.                                                 *)
(***************************************************************************)
\* Bit j (0 = least significant) of the number n.
NumBit(n, j) == (n \div 2 ^ j) % 2

\* C1: for every plain value v, decode_value(encode_value(v)) == v: whenever
\* decode_value has returned for the four bytes of encode_value(v), what it
\* returned is v, and given those four bytes it does return.
C1_ValueRoundTrip ==
    /\ back # NoValue => back = value
    /\ call = Called("decode_value", 4) => pc = "value" /\ back = value

C1_Witness ==
    /\ call = Called("decode_value", 4)
    /\ back = value
    /\ value \in {TestVector, Ones32}

\* C2: encode_value(v) is exactly 4 bytes, each in 0..255, and byte i holds
\* bits 8*(3-i) .. 8*(3-i)+7 of v (the big-endian representation of v);
\* 0x12345678 gives [0x12,0x34,0x56,0x78], 0 gives four 0 and 0xFFFFFFFF
\* four 0xFF.
C2_BigEndianBytes ==
    value # NoValue =>
        /\ Len(bytes) = 4
        /\ \A i \in 0 .. 3 :
              /\ At(bytes, i) \in 0 .. 255
              /\ \A j \in 0 .. 7 : NumBit(At(bytes, i), j) = value[8 * (3 - i) + j]
        /\ value = TestVector => bytes = <<18, 52, 86, 120>>
        /\ value = Zero32 => bytes = <<0, 0, 0, 0>>
        /\ value = Ones32 => bytes = <<255, 255, 255, 255>>

C2_Witness ==
    /\ call.op = "encode_value"
    /\ value = TestVector
    /\ bytes = <<18, 52, 86, 120>>

(***************************************************************************)
(* Properties of the symbolic encode and decode.                           *)
(***************************************************************************)
GatesOf(kind) == {i \in 1 .. Len(builder.gates) : builder.gates[i].kind = kind}

\* The bit targets of the decomposition of x, least significant first
\* (from 0): the limbs of the gate that splits x.
DecompositionBit(k) ==
    LET i == CHOOSE i \in GatesOf("split") : builder.gates[i].out = var
    IN  At(builder.gates[i].ins, k)

\* The value ByteVariable bv has under witness w, its eight bits read most
\* significant first.
ByteVariableGet(bv, w) ==
    LET bit(j) == w[At(bv, j)][0]
    IN  128 * bit(0) + 64 * bit(1) + 32 * bit(2) + 16 * bit(3)
        + 8 * bit(4) + 4 * bit(5) + 2 * bit(6) + bit(7)

\* C3: encode returns exactly 4 ByteVariables of 8 bits; bit j of byte i is
\* decomposition bit 8*(3-i) + (7-j) of the 32 (least significant first), and
\* each of the 32 decomposition bits stands in exactly one place.
C3_EncodeLayout ==
    encoded # <<>> =>
        /\ Len(encoded) = 4
        /\ \A i \in 0 .. 3 :
              /\ Len(At(encoded, i)) = 8
              /\ \A j \in 0 .. 7 : At(At(encoded, i), j) = DecompositionBit(8 * (3 - i) + (7 - j))
        /\ \A k \in 0 .. 31 :
              Cardinality({p \in (0 .. 3) \X (0 .. 7) :
                              At(At(encoded, p[1]), p[2]) = DecompositionBit(k)}) = 1
        /\ Cardinality({DecompositionBit(k) : k \in 0 .. 31}) = 32

C3_Witness ==
    /\ call.op = "encode"
    /\ Len(encoded) = 4
    /\ At(At(encoded, 0), 0) = DecompositionBit(31)
    /\ At(At(encoded, 3), 7) = DecompositionBit(0)

IsConstantVar == \E i \in GatesOf("constant") : builder.gates[i].out = var

\* The value the prover's inputs give x: its constant, or what was set.
XValue ==
    IF IsConstantVar
    THEN builder.gates[CHOOSE i \in GatesOf("constant") : builder.gates[i].out = var].value
    ELSE pw[var]

\* The prover's inputs are those of a valid witness: x is a constant or is
\* set, its value is below 2^32, and nothing written disagrees with it.
ValidInputs ==
    /\ IsConstantVar \/ var \in DOMAIN pw
    /\ var \in DOMAIN pw => pw[var] = XValue
    /\ decoded \in DOMAIN pw => pw[decoded] = XValue
    /\ InU32Range(XValue)

\* C4: decode(encode(x)) has the value of x.  In every witness the check
\* accepts, the decoded variable and x hold the same field element; with x
\* bound to a value below 2^32 the generated witness is accepted, also with
\* decoded asserted equal to x; and decode sums the same 32 bits in the
\* same least-significant-first order in which x was split.
C4_SymbolicRoundTrip ==
    decoded # NoTarget =>
        /\ accepted = "ok" => full[decoded] = full[var]
        /\ (call.op = "prove" /\ ValidInputs) =>
              accepted = "ok" /\ full[decoded] = XValue
        /\ \A i \in GatesOf("le_sum") :
              /\ Len(builder.gates[i].ins) = 32
              /\ \A k \in 0 .. 31 : At(builder.gates[i].ins, k) = DecompositionBit(k)

C4_Witness ==
    /\ call.op = "prove"
    /\ accepted = "ok"
    /\ GatesOf("connect") # {}
    /\ wrote = TestVector
    /\ full[decoded] = from_canonical_u32(TestVector)

\* C5: in every accepted witness of a circuit with encode, the plain value
\* of output byte i (bits read most significant first) is byte i of
\* encode_value(v), v the value of x in that witness.
C5_CrossConsistency ==
    (accepted = "ok" /\ encoded # <<>>) =>
        \A i \in 0 .. 3 :
            ByteVariableGet(At(encoded, i), full)
                = At(encode_value(to_canonical_u64_as_u32(full[var])), i)

C5_Witness ==
    /\ accepted = "ok"
    /\ encoded # <<>>
    /\ wrote = TestVector
    /\ ByteVariableGet(At(encoded, 0), full) = 18
    /\ ByteVariableGet(At(encoded, 3), full) = 120

\* C6: a wrong length is fatal and without effect: decode of a sequence
\* not of 4 bytes, decode_value of a sequence not of 4 bytes and
\* from_variables of a sequence not of 1 variable end the run, leaving the
\* builder, the variables and the results as they were; with the exact
\* length each returns.
C6_ArityIsFatal ==
    [][/\ (call'.op = "decode" /\ call'.len # 4) =>
            pc' = "panicked" /\ builder' = builder /\ decoded' = decoded
       /\ (call'.op = "decode_value" /\ call'.len # 4) =>
            pc' = "panicked" /\ back' = back
       /\ (call'.op = "from_variables" /\ call'.len # 1) =>
            pc' = "panicked" /\ var' = var /\ builder' = builder
       /\ (call'.op = "decode" /\ call'.len = 4) =>
            pc' = "build" /\ decoded' # NoTarget
       /\ (call'.op = "decode_value" /\ call'.len = 4) =>
            pc' = "value" /\ back' # NoValue
       /\ (call'.op = "from_variables" /\ call'.len = 1) =>
            pc' = "build" /\ var' # NoTarget
      ]_vars

C6_Witness ==
    /\ pc = "panicked"
    /\ call = Called("decode", 5)
    /\ encoded # <<>>
    /\ decoded = NoTarget
    /\ GatesOf("le_sum") = {}

\* C7: once encode was applied to x, every witness the check accepts binds
\* x to a value below 2^32.
C7_EncodeIsRangeCheck ==
    (accepted = "ok" /\ encoded # <<>>) => InU32Range(full[var])

C7_Witness ==
    /\ accepted = "rejected"
    /\ encoded # <<>>
    /\ call.op = "prove"
    /\ var \in DOMAIN pw
    /\ ~InU32Range(pw[var])
    /\ GatesOf("connect") = {}

(***************************************************************************)
(* Properties of get and set.                                              *)
(***************************************************************************)
\* C8: get after set(v) returns v, and set writes the one target of x: the
\* other entries of the witness stay as they were.
C8_SetThenGet ==
    /\ [](got # NoValue /\ wrote # NoValue => got = wrote)
    /\ [][(call'.op = "set" /\ pc' = "witness") =>
            /\ DOMAIN pw' = DOMAIN pw \cup {var}
            /\ \A t \in DOMAIN pw \ {var} : pw'[t] = pw[t]
            /\ \A k \in 0 .. 63 : pw'[var][k] = IF k < 32 THEN wrote'[k] ELSE 0
          ]_vars

C8_Witness ==
    /\ call.op = "get"
    /\ got = TestVector
    /\ wrote = TestVector
    /\ decoded \in DOMAIN pw
    /\ pw[decoded] # pw[var]

\* C9: get on a variable whose target was never assigned fails at once and
\* returns nothing; get has returned a value only when the target was
\* assigned before.
C9_GetNeedsSet ==
    /\ [](got # NoValue => var \in DOMAIN pw)
    /\ [][(call'.op = "get" /\ var \notin DOMAIN pw) =>
            pc' = "panicked" /\ got' = NoValue]_vars

C9_Witness ==
    /\ pc = "panicked"
    /\ call.op = "get"
    /\ var \notin DOMAIN pw
    /\ got = NoValue

\* C10: get never fails on an assigned target: bound to a field element c
\* it returns the low 32 bits of c, which is c itself exactly when c is
\* below 2^32.
C10_GetTruncates ==
    (call.op = "get" /\ var \in DOMAIN pw) =>
        /\ pc = "witness"
        /\ \A k \in 0 .. 31 : got[k] = pw[var][k]
        /\ from_canonical_u32(got) = pw[var] <=> InU32Range(pw[var])

C10_Witness ==
    /\ call.op = "get"
    /\ pc = "witness"
    /\ ~InU32Range(pw[var])
    /\ pw[var][32] = 1
    /\ got = TestVector

====
